---- MODULE Spec2Model ----
(***************************************************************************)
(* The upload page of frontend/src/routes/_layout/uploads.tsx as a state   *)
(* machine: the four pieces of React state of UploadsPage, the upload-all  *)
(* run with the values its closures captured, the single-shot and the      *)
(* multipart transfer between their awaits, and the processing trigger.    *)
(* One action is one turn of the JavaScript event loop: a click handler,   *)
(* or the code that runs from the settling of an awaited call to the next  *)
(* await.  The component is assumed to re-render between two turns, so a   *)
(* click handler sees the current state, while an async function keeps the *)
(* values of the render it was created in.  The loop that cuts a file      *)
(* into chunks is also taken alone (ChunkSpec), and the hook useSSEUpdates *)
(* of frontend/src/routes/_layout.tsx, which shares no state with the      *)
(* page, has a specification of its own (SseSpec).                         *)
(***************************************************************************)
EXTENDS Integers, Sequences, FiniteSets, TLC

\* ------------------------------------------------------------------ bounds
MaxFiles == 2
MaxParts == 2
MaxProcessCalls == 1
MaxTotalParts == 12
MaxRetryAttempt == 6

\* --------------------------------------------------------------- constants
MULTIPART_THRESHOLD == 100 * 1024 * 1024
MULTIPART_CHUNK_SIZE == 10 * 1024 * 1024
\* the length of the id fragments shown: the 8 of id.slice(-8)
FragmentLength == 8
\* _layout.tsx, in milliseconds
MAX_RETRY_DELAY == 30000
INITIAL_RETRY_DELAY == 1000

\* ------------------------------------------------------------ input domains
\* the files the user can select: one at the threshold, one just above it
Names == {"a", "b"}
Sizes == {MULTIPART_THRESHOLD, MULTIPART_THRESHOLD + 1}
Files == {[name |-> "a", size |-> MULTIPART_THRESHOLD],
          [name |-> "b", size |-> MULTIPART_THRESHOLD + 1]}
FileIds == {"f1"}
UploadIds == {"u1"}
\* ids of processing jobs, each a string of decimal digits held as the number it
\* spells
JobIds == {1234567890}
ETagHeaders == {<<"q", "e", "q">>}
HttpStatuses == {200, 500}
TotalPartsRange == 1 .. MaxParts
AcceptedDrops == UNION {[1 .. n -> Files] : n \in 1 .. MaxFiles}

\* the sizes of the files whose chunks are cut: the smallest multipart file, a
\* whole number of default chunks, and one byte more
ChunkFileSizes == {MULTIPART_THRESHOLD + 1, 11 * MULTIPART_CHUNK_SIZE,
                   11 * MULTIPART_CHUNK_SIZE + 1}
\* recommended_part_size of the initiate response, 0 for none given
RecommendedPartSizes == {0, 16 * 1024 * 1024, 50 * 1024 * 1024, MULTIPART_THRESHOLD + 1}

\* the arguments of connect: no URL, a string the EventSource constructor
\* rejects, and a URL it takes
NoUrl == ""
BadUrl == "http://"
GoodUrl == "/sse"
BaseUrls == {NoUrl, BadUrl, GoodUrl}

\* error.message of a rejected call
ApiErrors == {"api error"}

VARIABLES
    filesToUpload,      \* useState<File[]>
    uploadProgress,     \* useState<Record<string, number>>
    isUploadingOverall, \* useState(false)
    processingState,    \* useState<Record<string, FileProcessingState>>
    closure,            \* what the running handleUploadAll captured, as far as the
                        \* rest of the run reads it: the files from the current one
                        \* on, and the entries of the two maps under their names
    run,                \* the run of handleUploadAll under way: the names of the
                        \* files its loop uploads, taken at the click in the order
                        \* of the list, less those it has started (pending), and
                        \* whether the run is over
    pc,                 \* the await the run is suspended at
    local,              \* local variables of the running transfer
    log,                \* requests issued by the transfer in flight, and their outcomes
    returned,           \* the transfer that returned in the turn just run, if any:
                        \* what it wrote last, and its log; and the run, if that
                        \* turn ended it
    processCalls,       \* startFileProcessing calls in flight, per name
    chunks,             \* the for loop over the parts of handleMultipartFileUpload
                        \* taken alone: its inputs, its counter and the chunks cut
    sse                 \* the state and the refs of the hook useSSEUpdates of
                        \* _layout.tsx, its streams and its timers

vars == <<filesToUpload, uploadProgress, isUploadingOverall, processingState,
          closure, run, pc, local, log, returned, processCalls, chunks, sse>>

\* ------------------------------------------------------------------ helpers
EmptyMap == [x \in {} |-> 0]

\* { ...map, [k]: v }
SetKey(map, k, v) == [x \in DOMAIN map \cup {k} |-> IF x = k THEN v ELSE map[x]]

\* const m = { ...map }; delete m[k]
DeleteKey(map, k) == [x \in DOMAIN map \ {k} |-> map[x]]

NoId == ""
Msg(kind, text, n) == [kind |-> kind, text |-> text, n |-> n]
NoMsg == Msg("none", "", 0)

\* a FileProcessingState object; absent optional fields are NoMsg / NoId
Rec(status, message, fileId, uploadId) ==
    [status |-> status, message |-> message, fileId |-> fileId, uploadId |-> uploadId]

\* { ...prev[name]!, status, message }: the spread of undefined adds nothing
Spread(map, name) ==
    IF name \in DOMAIN map THEN map[name] ELSE Rec("none", NoMsg, NoId, NoId)

\* Math.round((num / den) * 100) for 0 <= num <= den, den > 0, by long division
\* (the products stay below 2^31)
Pct(num, den) ==
    LET q0 == num \div den
        r0 == num % den
        d1 == (10 * r0) \div den
        r1 == (10 * r0) % den
        d2 == (10 * r1) \div den
        r2 == (10 * r1) % den
    IN  100 * q0 + 10 * d1 + d2 + (IF 2 * r2 >= den THEN 1 ELSE 0)

\* etag.replace(/"/g, ''), the quote character written "q"
StripQuotes(s) == SelectSeq(s, LAMBDA c : c # "q")

\* (error as any).message || fallback
ErrorMessage(err, fallback) == IF err = "" THEN fallback ELSE err

\* id.slice(-k) of a string of digits: its last k digits
SliceFromEnd(id, k) == id % (10 ^ k)

UploadFailed(errorMessage) == Msg("Upload failed: ", errorMessage, 0)

\* one line of the network log: a request (ev = "req") or its outcome ("ok",
\* "fail"), with the arguments the claims are about
LogEntry(op, ev, part, parts, fileId, uploadId) ==
    [op |-> op, ev |-> ev, part |-> part, parts |-> parts,
     fileId |-> fileId, uploadId |-> uploadId, total_parts |-> 0]
Req(op, part) == LogEntry(op, "req", part, <<>>, NoId, NoId)
Ok(op, part) == LogEntry(op, "ok", part, <<>>, NoId, NoId)
Failed(op, part) == LogEntry(op, "fail", part, <<>>, NoId, NoId)

NoLocal == [file_id |-> NoId, upload_id |-> NoId, total_parts |-> 0,
            partNumber |-> 0, parts |-> <<>>, loaded |-> 0, error |-> ""]
NoClosure == [files |-> <<>>, uploadProgress |-> EmptyMap, processingState |-> EmptyMap]
NoRun == [pending |-> <<>>, over |-> FALSE]
NoReturned == [name |-> "", result |-> "none", progress |-> 0,
               state |-> Rec("none", NoMsg, NoId, NoId), log |-> <<>>, run |-> NoRun]

\* the values of the error state of the hook: null, the message of connect for
\* a missing URL, and the message of a lost connection
NoError == [kind |-> "none", seconds |-> 0, attempt |-> 0]
NoValidUrl == [kind |-> "nourl", seconds |-> 0, attempt |-> 0]

\* the hook after its first render; errors, sinceReset, disconnected and did are
\* not state of the hook: they record the stream errors since the last open,
\* those since the last open or reset by disconnect, whether disconnect was the
\* last call of the component, and what the turn just run did
NoSse == [isConnected |-> FALSE, error |-> NoError, eventSource |-> 0,
          retryTimeoutRef |-> 0, retryAttempt |-> 0,
          readyState |-> EmptyMap, timers |-> {},
          errors |-> 0, sinceReset |-> 0, disconnected |-> FALSE,
          did |-> [op |-> "none", created |-> 0, scheduled |-> <<>>]]

NoChunks == [size |-> 0, recommended_part_size |-> 0, total_parts |-> 0,
             partNumber |-> 0, cut |-> <<>>]

\* the upload page
page == <<filesToUpload, uploadProgress, isUploadingOverall, processingState,
          closure, run, pc, local, log, returned, processCalls>>

\* the upload page after its first render
PageInit ==
    /\ filesToUpload = <<>>
    /\ uploadProgress = EmptyMap
    /\ isUploadingOverall = FALSE
    /\ processingState = EmptyMap
    /\ closure = NoClosure
    /\ run = NoRun
    /\ pc = "idle"
    /\ local = NoLocal
    /\ log = <<>>
    /\ returned = NoReturned
    /\ processCalls = [n \in Names |-> 0]

Init ==
    /\ PageInit
    /\ chunks = NoChunks
    /\ sse = NoSse

\* ---------------------------------------------------------------- the page
HasName(files, name) == \E i \in 1 .. Len(files) : files[i].name = name

\* onDrop
Drop(acceptedFiles) ==
    LET newFiles == SelectSeq(acceptedFiles,
                              LAMBDA f : ~HasName(filesToUpload, f.name))
    IN  /\ newFiles # <<>>
        /\ Len(filesToUpload) + Len(newFiles) <= MaxFiles
        /\ filesToUpload' = filesToUpload \o newFiles
        /\ UNCHANGED <<uploadProgress, isUploadingOverall, processingState,
                       closure, run, pc, local, log, processCalls, chunks, sse>>
        /\ returned' = NoReturned

\* uploadProgress[file.name] || 0
CurrentUploadProgress(name) ==
    IF name \in DOMAIN uploadProgress THEN uploadProgress[name] ELSE 0

StatusIs(name, status) ==
    name \in DOMAIN processingState /\ processingState[name].status = status

\* the disabled prop of the "Remove file" button
RemoveDisabled(name) ==
    \/ /\ isUploadingOverall
       /\ CurrentUploadProgress(name) > 0
       /\ CurrentUploadProgress(name) < 100
    \/ StatusIs(name, "processing")

\* handleRemoveFile, clicked on the card of filesToUpload[i]
RemoveFile(i) ==
    LET fileName == filesToUpload[i].name IN
    /\ ~RemoveDisabled(fileName)
    /\ filesToUpload' = SelectSeq(filesToUpload, LAMBDA f : f.name # fileName)
    /\ uploadProgress' = DeleteKey(uploadProgress, fileName)
    /\ processingState' = DeleteKey(processingState, fileName)
    /\ UNCHANGED <<isUploadingOverall, closure, run, pc, local, log, processCalls, chunks, sse>>
    /\ returned' = NoReturned

\* the onClick of "Clear All"
ClearAll ==
    /\ Len(filesToUpload) > 0
    /\ ~isUploadingOverall
    /\ filesToUpload' = <<>>
    /\ uploadProgress' = EmptyMap
    /\ processingState' = EmptyMap
    /\ UNCHANGED <<isUploadingOverall, closure, run, pc, local, log, processCalls, chunks, sse>>
    /\ returned' = NoReturned

\* ----------------------------------------------------------- upload-all run
\* the file the for-of loop of handleUploadAll is at
CurFile == closure.files[1]

\* ShouldUpload without the test for -1: failed files are taken again
ShouldUploadBelow100(progress, name) ==
    \/ name \notin DOMAIN progress
    \/ progress[name] < 100

\* the condition of the if in the loop of handleUploadAll
ShouldUpload(progress, name) ==
    \/ name \notin DOMAIN progress
    \/ (progress[name] < 100 /\ progress[name] # -1)

\* UploadAllDisabled without isUploadingOverall
UploadAllDisabledWhenDone ==
    \A i \in 1 .. Len(filesToUpload) :
        /\ filesToUpload[i].name \in DOMAIN uploadProgress
        /\ uploadProgress[filesToUpload[i].name] \in {100, -1}

\* the disabled prop of "Upload All Pending Files"
UploadAllDisabled ==
    \/ isUploadingOverall
    \/ \A i \in 1 .. Len(filesToUpload) :
          /\ filesToUpload[i].name \in DOMAIN uploadProgress
          /\ uploadProgress[filesToUpload[i].name] \in {100, -1}

\* UseMultipart with the threshold itself on the multipart side
UseMultipartFromThreshold(size) == size >= MULTIPART_THRESHOLD

\* handleIndividualFileUpload: TRUE selects handleMultipartFileUpload
UseMultipart(size) == size > MULTIPART_THRESHOLD

\* the position in files of the first file the loop uploads, 0 if there is none
NextEligible(files, progress) ==
    LET c == {j \in 1 .. Len(files) : ShouldUpload(progress, files[j].name)}
    IN  IF c = {} THEN 0 ELSE CHOOSE j \in c : \A k \in c : j <= k

\* the entries of map under the names of files
Captured(map, files) == [n \in {x \in DOMAIN map : HasName(files, x)} |-> map[n]]

\* seq without its first element equal to x
RemoveFirst(seq, x) ==
    LET at == {i \in DOMAIN seq : seq[i] = x} IN
    IF at = {} THEN seq
    ELSE LET i == CHOOSE k \in at : \A m \in at : k <= m
         IN  SubSeq(seq, 1, i - 1) \o SubSeq(seq, i + 1, Len(seq))

\* The loop of handleUploadAll over the files it has not visited yet, up to its
\* next await: it skips the files the captured uploadProgress shows as done,
\* marks the next one pending_upload and starts its transfer (progress 0, first
\* request sent), or ends the run.  prog and st are the maps as written so far
\* in this turn, rn the run as it stands.
Loop(cl, prog, st, ret, rn) ==
    LET j == NextEligible(cl.files, cl.uploadProgress) IN
    IF j = 0
    THEN /\ isUploadingOverall' = FALSE
         /\ closure' = NoClosure
         /\ run' = NoRun
         /\ pc' = "idle"
         /\ local' = NoLocal
         /\ log' = <<>>
         /\ uploadProgress' = prog
         /\ processingState' = st
         /\ returned' = [ret EXCEPT !.run = [rn EXCEPT !.over = TRUE]]
    ELSE LET f == cl.files[j]
             rest == SubSeq(cl.files, j, Len(cl.files))
             first == IF UseMultipart(f.size) THEN "initiate" ELSE "presign"
         IN  /\ isUploadingOverall' = TRUE
             /\ closure' = [files |-> rest,
                            uploadProgress |-> Captured(cl.uploadProgress, rest),
                            processingState |-> Captured(cl.processingState, rest)]
             /\ run' = [rn EXCEPT !.pending = RemoveFirst(@, f.name)]
             /\ pc' = first
             /\ local' = NoLocal
             /\ log' = <<Req(first, 0)>>
             /\ processingState' =
                    SetKey(st, f.name, Rec("pending_upload", NoMsg, NoId, NoId))
             /\ uploadProgress' = SetKey(prog, f.name, 0)
             /\ returned' = ret

\* the names of the files of the list that the if of the loop lets through, in
\* the order of the list
Batch ==
    LET up == SelectSeq(filesToUpload, LAMBDA f : ShouldUpload(uploadProgress, f.name))
    IN  [k \in DOMAIN up |-> up[k].name]

\* handleUploadAll up to its first await, or to its end if the loop uploads nothing
HandleUploadAll ==
    /\ Len(filesToUpload) > 0
    /\ Loop([files |-> filesToUpload, uploadProgress |-> uploadProgress,
             processingState |-> processingState],
            uploadProgress, processingState, NoReturned,
            [pending |-> Batch, over |-> FALSE])
    /\ UNCHANGED <<chunks, sse, filesToUpload, processCalls>>

\* a click on "Upload All Pending Files"
UploadAllClick ==
    /\ ~UploadAllDisabled
    /\ HandleUploadAll

\* Return without the step of the loop: the same file is taken again
ReturnStays(result, prog, st, lg) ==
    Loop(closure, prog, st,
         [name |-> CurFile.name, result |-> result, progress |-> prog[CurFile.name],
          state |-> st[CurFile.name], log |-> lg, run |-> NoRun],
         run)

\* the transfer of CurFile returns to the loop having written prog and st
Return(result, prog, st, lg) ==
    Loop([closure EXCEPT !.files = Tail(closure.files)], prog, st,
         [name |-> CurFile.name, result |-> result, progress |-> prog[CurFile.name],
          state |-> st[CurFile.name], log |-> lg, run |-> NoRun],
         run)

\* a successful transfer: awaiting_action with the file id
Succeed(prog, lg) ==
    Return("success", prog,
           SetKey(processingState, CurFile.name,
                  Rec("awaiting_action", NoMsg, local.file_id, NoId)),
           lg)

\* CaughtByUploadAll leaving the loop: the failure of a file ends the run
CaughtByUploadAllStops(err, prog, st, lg) ==
    LET errorMessage == ErrorMessage(err, "An unknown error occurred during upload.")
        p1 == SetKey(prog, CurFile.name, -1)
        s1 == SetKey(st, CurFile.name,
                     Rec("error", UploadFailed(errorMessage), NoId, NoId))
    IN  Loop([closure EXCEPT !.files = <<>>], p1, s1,
             [name |-> CurFile.name, result |-> "error", progress |-> -1,
              state |-> s1[CurFile.name], log |-> lg, run |-> NoRun],
             run)

\* the catch of the loop of handleUploadAll
CaughtByUploadAll(err, prog, st, lg) ==
    LET errorMessage == ErrorMessage(err, "An unknown error occurred during upload.")
    IN  Return("error",
               SetKey(prog, CurFile.name, -1),
               SetKey(st, CurFile.name,
                      Rec("error", UploadFailed(errorMessage), NoId, NoId)),
               lg)

\* the catch of handleSingleFileUpload
SingleCatch(err, lg) ==
    LET errorMessage == ErrorMessage(err, "An unknown error occurred during upload.")
    IN  CaughtByUploadAll(err,
            SetKey(uploadProgress, CurFile.name, -1),
            SetKey(processingState, CurFile.name,
                   Rec("error", UploadFailed(errorMessage), NoId, NoId)),
            lg)

\* the end of the catch of handleMultipartFileUpload, after the abort if any
MultipartRethrow(err, lg) ==
    LET errorMessage ==
            ErrorMessage(err, "An unknown error occurred during multipart upload.")
    IN  CaughtByUploadAll(err,
            SetKey(uploadProgress, CurFile.name, -1),
            SetKey(processingState, CurFile.name,
                   Rec("error", UploadFailed(errorMessage), NoId, NoId)),
            lg)

\* AbortGuard without its test: the abort is requested whatever is known
AbortGuardAlways(uploadState) == TRUE

\* uploadState?.uploadId && uploadState?.fileId
AbortGuard(uploadState) == uploadState.uploadId # NoId /\ uploadState.fileId # NoId

\* the catch of handleMultipartFileUpload up to its await: uploadState is read from
\* the processingState the function captured, not from the current one
MultipartCatch(err, lg) ==
    LET uploadState == Spread(closure.processingState, CurFile.name) IN
    IF AbortGuard(uploadState)
    THEN /\ pc' = "abort"
         /\ local' = [local EXCEPT !.error = err]
         /\ log' = Append(lg, LogEntry("abort", "req", 0, <<>>,
                                       uploadState.fileId, uploadState.uploadId))
         /\ returned' = NoReturned
         /\ UNCHANGED <<uploadProgress, processingState, isUploadingOverall,
                        closure, run>>
    ELSE MultipartRethrow(err, lg)

\* -------------------------------------------------------- single-shot transfer
\* the values of event.loaded the model lets progress events report
LoadedSteps(size) == {size \div 2, size}

\* what the storage answered, whatever the page makes of it
HttpOutcome(status) == IF status \in 200 .. 299 THEN "ok" ELSE "fail"

\* XhrStatusOk without the upper limit
XhrStatusOkFrom200(status) == status >= 200

\* xhr.status >= 200 && xhr.status < 300
XhrStatusOk(status) == status >= 200 /\ status < 300

\* createPresignedUploadUrl resolved: the XMLHttpRequest is opened and sent
PresignReturns(file_id) ==
    /\ pc' = "xhr"
    /\ local' = [local EXCEPT !.file_id = file_id]
    /\ log' = log \o <<LogEntry("presign", "ok", 0, <<>>, file_id, NoId), Req("xhrPut", 0)>>
    /\ returned' = NoReturned
    /\ UNCHANGED <<uploadProgress, processingState, isUploadingOverall, closure, run>>

\* the 'progress' listener of xhr.upload
XhrProgress(lengthComputable, loaded) ==
    /\ pc = "xhr"
    /\ loaded \in LoadedSteps(CurFile.size)
    /\ loaded > local.loaded
    /\ local' = [local EXCEPT !.loaded = loaded]
    /\ uploadProgress' =
         IF lengthComputable
         THEN SetKey(uploadProgress, CurFile.name, Pct(loaded, CurFile.size))
         ELSE uploadProgress
    /\ returned' = NoReturned
    /\ UNCHANGED <<chunks, sse, filesToUpload, processingState, isUploadingOverall, closure, run,
                   pc, log, processCalls>>

\* the 'load' listener, then the rest of handleSingleFileUpload
XhrLoad(status) ==
    /\ pc = "xhr"
    /\ LET lg == Append(log, LogEntry("xhrPut", HttpOutcome(status), 0, <<>>, NoId, NoId))
       IN  IF XhrStatusOk(status)
           THEN Succeed(SetKey(uploadProgress, CurFile.name, 100), lg)
           ELSE SingleCatch("Upload failed with status", lg)
    /\ UNCHANGED <<chunks, sse, filesToUpload, processCalls>>

\* the 'error' listener
XhrError ==
    /\ pc = "xhr"
    /\ SingleCatch("Upload failed due to network error", Append(log, Failed("xhrPut", 0)))
    /\ UNCHANGED <<chunks, sse, filesToUpload, processCalls>>

\* ---------------------------------------------------------- multipart transfer
\* LoopContinues stopping one part early
LoopContinuesShort(partNumber, total_parts) == partNumber < total_parts

\* the condition of the for loop over the parts
LoopContinues(partNumber, total_parts) == partNumber <= total_parts

\* AppendPart putting the new part first (unshift for push)
AppendPartFront(parts, partNumber, etag) ==
    <<[part_number |-> partNumber, etag |-> etag]>> \o parts

\* parts.push({ part_number, etag })
AppendPart(parts, partNumber, etag) ==
    Append(parts, [part_number |-> partNumber, etag |-> etag])

\* Math.round((partNumber / total_parts) * 100)
OverallProgress(partNumber, total_parts) == Pct(partNumber, total_parts)

\* ResponseOk without the test of the status
ResponseOkAlways(status) == TRUE

\* response.ok
ResponseOk(status) == status >= 200 /\ status < 300

\* The head of the for loop with the locals lc: the part-URL request of the next
\* part, or after the last part the completion request
PartLoop(lc, prog, lg) ==
    /\ local' = lc
    /\ uploadProgress' = prog
    /\ IF LoopContinues(lc.partNumber, lc.total_parts)
       THEN /\ pc' = "partUrl"
            /\ log' = Append(lg, LogEntry("partUrl", "req", lc.partNumber, <<>>,
                                          lc.file_id, lc.upload_id))
       ELSE /\ pc' = "complete"
            /\ log' = Append(lg, LogEntry("complete", "req", 0, lc.parts,
                                          lc.file_id, lc.upload_id))
    /\ returned' = NoReturned
    /\ UNCHANGED <<isUploadingOverall, closure, run>>

\* initiateMultipartUploadEndpoint resolved
InitiateReturns(upload_id, file_id, total_parts) ==
    /\ processingState' =
         SetKey(processingState, CurFile.name,
                Rec("processing", Msg("Uploading parts...", "", total_parts),
                    file_id, upload_id))
    /\ PartLoop([local EXCEPT !.upload_id = upload_id, !.file_id = file_id,
                              !.total_parts = total_parts, !.partNumber = 1,
                              !.parts = <<>>],
                uploadProgress,
                Append(log, [LogEntry("initiate", "ok", 0, <<>>, file_id, upload_id)
                                EXCEPT !.total_parts = total_parts]))

\* getMultipartPartUrl resolved: the PUT of the chunk is sent
PartUrlReturns ==
    /\ pc' = "partPut"
    /\ log' = log \o <<Ok("partUrl", local.partNumber), Req("partPut", local.partNumber)>>
    /\ returned' = NoReturned
    /\ UNCHANGED <<uploadProgress, processingState, isUploadingOverall,
                   closure, run, local>>

\* completeMultipartUploadEndpoint resolved
CompleteReturns ==
    Succeed(SetKey(uploadProgress, CurFile.name, 100), Append(log, Ok("complete", 0)))

\* abortMultipartUploadEndpoint settled either way: the original error goes on
AbortSettles(ev) ==
    MultipartRethrow(local.error, Append(log, LogEntry("abort", ev, 0, <<>>, NoId, NoId)))

\* the fetch of a part resolved with a response
FetchResolves(status, etagHeader) ==
    /\ pc = "partPut"
    /\ LET lg == Append(log, LogEntry("partPut", HttpOutcome(status), local.partNumber,
                                      <<>>, NoId, NoId))
       IN  IF ~ResponseOk(status)
           THEN MultipartCatch("Failed to upload part", lg)
           ELSE /\ PartLoop([local EXCEPT
                               !.parts = AppendPart(local.parts, local.partNumber,
                                                    StripQuotes(etagHeader)),
                               !.partNumber = local.partNumber + 1],
                            SetKey(uploadProgress, CurFile.name,
                                   OverallProgress(local.partNumber, local.total_parts)),
                            lg)
                /\ UNCHANGED processingState
    /\ UNCHANGED <<chunks, sse, filesToUpload, processCalls>>

\* the fetch of a part rejected
FetchRejects ==
    /\ pc = "partPut"
    /\ MultipartCatch("Failed to fetch", Append(log, Failed("partPut", local.partNumber)))
    /\ UNCHANGED <<chunks, sse, filesToUpload, processCalls>>

\* ------------------------------------------------------ the chunks of a file
Min(a, b) == IF a <= b THEN a ELSE b
Max(a, b) == IF a >= b THEN a ELSE b

\* recommended_part_size || MULTIPART_CHUNK_SIZE
PartSize(recommended_part_size) ==
    IF recommended_part_size = 0 THEN MULTIPART_CHUNK_SIZE ELSE recommended_part_size

\* (partNumber - 1) * partSize
ChunkStart(partNumber, partSize) == (partNumber - 1) * partSize

\* ChunkEnd without Math.min
ChunkEndUnclamped(start, partSize, size) == start + partSize

\* Math.min(start + partSize, file.size)
ChunkEnd(start, partSize, size) == Min(start + partSize, size)

\* file.slice(start, end) for start, end >= 0: both are clamped to the size and a
\* negative span gives the empty blob; the blob holds the bytes lo .. hi - 1
Slice(size, start, end) ==
    LET relativeStart == Min(start, size)
        relativeEnd == Min(end, size)
        span == Max(relativeEnd - relativeStart, 0)
    IN  [lo |-> relativeStart, hi |-> relativeStart + span]

\* one round of the for loop over the parts, as far as the chunk goes
CutChunk ==
    /\ chunks.partNumber >= 1
    /\ LoopContinues(chunks.partNumber, chunks.total_parts)
    /\ LET partSize == PartSize(chunks.recommended_part_size)
           start == ChunkStart(chunks.partNumber, partSize)
           end == ChunkEnd(start, partSize, chunks.size)
           chunk == Slice(chunks.size, start, end)
       IN  chunks' = [chunks EXCEPT
                        !.cut = Append(@, [start |-> start, end |-> end,
                                           lo |-> chunk.lo, hi |-> chunk.hi]),
                        !.partNumber = @ + 1]
    /\ UNCHANGED <<page, sse>>

\* a multipart session at the head of its loop over the parts: the file, and what
\* the initiate response said
InitChunks ==
    /\ PageInit
    /\ sse = NoSse
    /\ \E size \in ChunkFileSizes, r \in RecommendedPartSizes, n \in 1 .. MaxTotalParts :
          chunks = [size |-> size, recommended_part_size |-> r, total_parts |-> n,
                    partNumber |-> 1, cut |-> <<>>]

ChunkSpec == InitChunks /\ [][CutChunk]_vars

\* --------------------------------------------------- calls of UploadsService
\* an awaited call of UploadsService resolves
ApiCallReturns(upload_id, file_id, total_parts) ==
    /\ pc \in {"presign", "initiate", "partUrl", "complete", "abort"}
    /\ CASE pc = "presign" -> PresignReturns(file_id)
         [] pc = "initiate" -> InitiateReturns(upload_id, file_id, total_parts)
         [] pc = "partUrl" -> PartUrlReturns
         [] pc = "complete" -> CompleteReturns
         [] pc = "abort" -> AbortSettles("ok")
    /\ UNCHANGED <<chunks, sse, filesToUpload, processCalls>>

\* an awaited call of UploadsService rejects
ApiCallThrows(err) ==
    /\ pc \in {"presign", "initiate", "partUrl", "complete", "abort"}
    /\ CASE pc = "presign" -> SingleCatch(err, Append(log, Failed("presign", 0)))
         [] pc = "initiate" -> MultipartCatch(err, Append(log, Failed("initiate", 0)))
         [] pc = "partUrl" ->
                MultipartCatch(err, Append(log, Failed("partUrl", local.partNumber)))
         [] pc = "complete" -> MultipartCatch(err, Append(log, Failed("complete", 0)))
         [] pc = "abort" -> AbortSettles("fail")
    /\ UNCHANGED <<chunks, sse, filesToUpload, processCalls>>

\* ---------------------------------------------------------- processing trigger
\* the number of startFileProcessing calls that have not settled
RECURSIVE CallsInFlight(_, _)
CallsInFlight(calls, names) ==
    IF names = {} THEN 0
    ELSE LET n == CHOOSE x \in names : TRUE
         IN  calls[n] + CallsInFlight(calls, names \ {n})

\* the "Start Transcription" button is rendered on the card of this name
ProcessVisible(name) ==
    /\ CurrentUploadProgress(name) = 100
    /\ StatusIs(name, "awaiting_action")

\* NoFileId finding no file without an id
NoFileIdNever(state, fileName) == FALSE

\* !currentProcessingState?.fileId
NoFileId(state, fileName) == Spread(state, fileName).fileId = NoId

\* handleProcessFile(fileName) up to its await or its early return
HandleProcessFile(fileName) ==
    /\ IF NoFileId(processingState, fileName)
       THEN UNCHANGED <<processingState, processCalls>>
       ELSE /\ processingState' =
                 SetKey(processingState, fileName,
                        [Spread(processingState, fileName) EXCEPT !.status = "processing"])
            /\ processCalls' = [processCalls EXCEPT ![fileName] = @ + 1]
    /\ UNCHANGED <<chunks, sse, filesToUpload, uploadProgress, isUploadingOverall, closure, run,
                   pc, local, log>>

\* a click on "Start Transcription" on the card of filesToUpload[i]
ProcessClick(i) ==
    /\ ProcessVisible(filesToUpload[i].name)
    /\ CallsInFlight(processCalls, Names) < MaxProcessCalls
    /\ HandleProcessFile(filesToUpload[i].name)
    /\ returned' = NoReturned

\* ProcessedMessage with the whole id
ProcessedMessageWhole(id) == Msg("Process ID: ", "", id)

\* `Process ID: ${processResponse.id.slice(-8)}`
ProcessedMessage(id) == Msg("Process ID: ", "", SliceFromEnd(id, FragmentLength))

\* startFileProcessing resolved
ProcessReturns(fileName, id) ==
    /\ processCalls[fileName] > 0
    /\ processCalls' = [processCalls EXCEPT ![fileName] = @ - 1]
    /\ processingState' =
         SetKey(processingState, fileName,
                [Spread(processingState, fileName) EXCEPT
                    !.status = "processed", !.message = ProcessedMessage(id)])
    /\ returned' = NoReturned
    /\ UNCHANGED <<chunks, sse, filesToUpload, uploadProgress, isUploadingOverall, closure, run,
                   pc, local, log>>

\* (error as any).message || `Failed to process ${fileName}.`
ProcessFailedMessage(err) == Msg("", ErrorMessage(err, "Failed to process"), 0)

\* startFileProcessing rejected
ProcessThrows(fileName, err) ==
    /\ processCalls[fileName] > 0
    /\ processCalls' = [processCalls EXCEPT ![fileName] = @ - 1]
    /\ processingState' =
         SetKey(processingState, fileName,
                [Spread(processingState, fileName) EXCEPT
                    !.status = "error", !.message = ProcessFailedMessage(err)])
    /\ returned' = NoReturned
    /\ UNCHANGED <<chunks, sse, filesToUpload, uploadProgress, isUploadingOverall, closure, run,
                   pc, local, log>>

\* ------------------------------------------------- the hook useSSEUpdates
\* One action is one turn of the event loop: a call of connect or disconnect by
\* the component, the firing of the retry timer, or an event of an EventSource.
\* An EventSource that close() was called on fires no event any more.  The
\* message event and registerHandler touch only the handlers and are left out.

\* { ...s, did } with the stream ids nobody can reach any more forgotten: closed
\* streams that eventSource.current does not hold
Turn(s, op, created, scheduled) ==
    [s EXCEPT
       !.readyState = [i \in {j \in DOMAIN s.readyState :
                                 s.readyState[j] # "CLOSED" \/ j = s.eventSource}
                         |-> s.readyState[i]],
       !.did = [op |-> op, created |-> created, scheduled |-> scheduled]]

\* the id of the next object created: the least one not in use
NewId(used) == CHOOSE i \in 1 .. Cardinality(used) + 1 :
                   i \notin used /\ \A j \in 1 .. i - 1 : j \in used

TimerIds(s) == {t.id : t \in s.timers} \cup ({s.retryTimeoutRef} \ {0})

\* ClearRetryTimeout that forgets the timer without stopping it
ClearRetryTimeoutForgets(s) == [s EXCEPT !.retryTimeoutRef = 0]

\* if (retryTimeoutRef.current) { clearTimeout(retryTimeoutRef.current);
\*                                retryTimeoutRef.current = null }
ClearRetryTimeout(s) ==
    IF s.retryTimeoutRef # 0
    THEN [s EXCEPT !.timers = {t \in @ : t.id # s.retryTimeoutRef},
                   !.retryTimeoutRef = 0]
    ELSE s

\* !baseUrl || typeof baseUrl !== "string"
InvalidBaseUrl(baseUrl) == baseUrl = NoUrl

\* ShouldCloseExisting finding nothing to close
ShouldCloseExistingNever(s) == FALSE

\* eventSource.current && eventSource.current.readyState !== EventSource.CLOSED
ShouldCloseExisting(s) ==
    s.eventSource # 0 /\ s.readyState[s.eventSource] # "CLOSED"

\* RetryDelay with the exponent one too high
RetryDelayDoubled(retryAttempt) ==
    Min(MAX_RETRY_DELAY, INITIAL_RETRY_DELAY * 2 ^ retryAttempt)

\* Math.min(MAX_RETRY_DELAY, INITIAL_RETRY_DELAY * 2 ** (retryAttempt.current - 1))
RetryDelay(retryAttempt) ==
    Min(MAX_RETRY_DELAY, INITIAL_RETRY_DELAY * 2 ^ (retryAttempt - 1))

\* `SSE connection lost. Retrying in ${delay / 1000}s (attempt ${retryAttempt})`
ConnectionLost(delay, retryAttempt) ==
    [kind |-> "lost", seconds |-> delay \div 1000, attempt |-> retryAttempt]

\* the body of connect(baseUrl) on the hook s; op names the turn it runs in
ConnectBody(s, baseUrl, op) ==
    LET s1 == ClearRetryTimeout(s) IN
    IF InvalidBaseUrl(baseUrl)
    THEN Turn([s1 EXCEPT !.error = NoValidUrl], op, 0, <<>>)
    ELSE LET s2 == IF ShouldCloseExisting(s1)
                   THEN [s1 EXCEPT !.readyState[s1.eventSource] = "CLOSED"]
                   ELSE s1
         IN  IF baseUrl = BadUrl
             THEN \* new EventSource throws; the catch only logs
                  Turn(s2, op, 0, <<>>)
             ELSE LET es == NewId(DOMAIN s2.readyState)
                  IN  Turn([s2 EXCEPT
                              !.readyState = [i \in DOMAIN @ \cup {es} |->
                                                IF i = es THEN "CONNECTING" ELSE @[i]],
                              !.eventSource = es],
                           op, 1, <<>>)

\* connect(baseUrl) called by the component
Connect(baseUrl) ==
    /\ sse' = [ConnectBody(sse, baseUrl, "connect") EXCEPT !.disconnected = FALSE]
    /\ UNCHANGED <<page, chunks>>

\* the retry timer t fires: connect(baseUrl) with the URL the stream was made for
TimerFires(t) ==
    /\ t \in sse.timers
    /\ sse' = ConnectBody([sse EXCEPT !.timers = @ \ {t}], GoodUrl, "timer")
    /\ UNCHANGED <<page, chunks>>

\* es.onopen: the stream es is announced open
StreamOpens(es) ==
    /\ es \in DOMAIN sse.readyState
    /\ sse.readyState[es] = "CONNECTING"
    /\ sse' = Turn([sse EXCEPT !.readyState[es] = "OPEN",
                               !.isConnected = TRUE,
                               !.error = NoError,
                               !.retryAttempt = 0,
                               !.errors = 0,
                               !.sinceReset = 0],
                   "open", 0, <<>>)
    /\ UNCHANGED <<page, chunks>>

\* es.onerror: the browser has lost the stream es and, if not fatal, is connecting
\* again (readyState CONNECTING), or has given it up (CLOSED)
StreamError(es, fatal) ==
    /\ es \in DOMAIN sse.readyState
    /\ sse.readyState[es] # "CLOSED"
    /\ sse.retryAttempt < MaxRetryAttempt
    /\ sse.errors < MaxRetryAttempt
    /\ LET s1 == [sse EXCEPT !.readyState[es] = IF fatal THEN "CLOSED" ELSE "CONNECTING",
                             !.isConnected = FALSE]
           s2 == IF s1.eventSource = es
                 THEN [s1 EXCEPT !.readyState[es] = "CLOSED", !.eventSource = 0]
                 ELSE s1
           attempt == s2.retryAttempt + 1
           delay == RetryDelay(attempt)
           timer == NewId(TimerIds(s2))
       IN  sse' = Turn([s2 EXCEPT !.retryAttempt = attempt,
                                  !.error = ConnectionLost(delay, attempt),
                                  !.retryTimeoutRef = timer,
                                  !.timers = @ \cup {[id |-> timer, delay |-> delay]},
                                  !.errors = @ + 1,
                                  !.sinceReset = @ + 1],
                       "error", 0, <<delay>>)
    /\ UNCHANGED <<page, chunks>>

\* disconnect()
Disconnect ==
    /\ LET s1 == ClearRetryTimeout(sse) IN
       sse' = Turn([(IF s1.eventSource # 0
                     THEN [s1 EXCEPT !.readyState[s1.eventSource] = "CLOSED",
                                     !.eventSource = 0,
                                     !.isConnected = FALSE,
                                     !.retryAttempt = 0,
                                     !.error = NoError,
                                     !.sinceReset = 0]
                     ELSE s1) EXCEPT !.disconnected = TRUE],
                   "disconnect", 0, <<>>)
    /\ UNCHANGED <<page, chunks>>

InitSse ==
    /\ PageInit
    /\ chunks = NoChunks
    /\ sse = NoSse

NextSse ==
    \/ \E baseUrl \in BaseUrls : Connect(baseUrl)
    \/ \E t \in sse.timers : TimerFires(t)
    \/ \E es \in DOMAIN sse.readyState : StreamOpens(es)
    \/ \E es \in DOMAIN sse.readyState, fatal \in BOOLEAN : StreamError(es, fatal)
    \/ Disconnect

SseSpec == InitSse /\ [][NextSse]_vars

\* ------------------------------------------------------------- specification
Next ==
    \/ \E acceptedFiles \in AcceptedDrops : Drop(acceptedFiles)
    \/ \E i \in 1 .. Len(filesToUpload) : RemoveFile(i)
    \/ ClearAll
    \/ UploadAllClick
    \/ \E u \in UploadIds, f \in FileIds, n \in TotalPartsRange : ApiCallReturns(u, f, n)
    \/ \E err \in ApiErrors : ApiCallThrows(err)
    \/ \E lc \in BOOLEAN, loaded \in UNION {LoadedSteps(z) : z \in Sizes} : XhrProgress(lc, loaded)
    \/ \E status \in HttpStatuses : XhrLoad(status)
    \/ XhrError
    \/ \E status \in HttpStatuses, h \in ETagHeaders : FetchResolves(status, h)
    \/ FetchRejects
    \/ \E i \in 1 .. Len(filesToUpload) : ProcessClick(i)
    \/ \E name \in Names, id \in JobIds : ProcessReturns(name, id)
    \/ \E name \in Names, err \in ApiErrors : ProcessThrows(name, err)

Spec == Init /\ [][Next]_vars

\* ---------------------------------------- handleProcessFile called on any card
\* what a listed file has in the two maps when no run is under way and nothing
\* has been triggered: nothing (just selected), a failed upload, a finished upload
TriggerShapes ==
    {[entries |-> FALSE, progress |-> 0, state |-> Rec("none", NoMsg, NoId, NoId)]}
    \cup {[entries |-> TRUE, progress |-> -1,
           state |-> Rec("error", UploadFailed(e), NoId, NoId)] : e \in ApiErrors}
    \cup {[entries |-> TRUE, progress |-> 100,
           state |-> Rec("awaiting_action", NoMsg, f, NoId)] : f \in FileIds}

\* the lists of files without a name twice
TriggerLists ==
    {fs \in UNION {[1 .. n -> Files] : n \in 1 .. MaxFiles} :
        \A i, j \in DOMAIN fs : fs[i].name = fs[j].name => i = j}

InitTrigger ==
    /\ filesToUpload \in TriggerLists
    /\ \E sh \in [Names -> TriggerShapes] :
          LET with == {n \in Names : HasName(filesToUpload, n) /\ sh[n].entries} IN
          /\ uploadProgress = [n \in with |-> sh[n].progress]
          /\ processingState = [n \in with |-> sh[n].state]
    /\ isUploadingOverall = FALSE
    /\ closure = NoClosure
    /\ run = NoRun
    /\ pc = "idle"
    /\ local = NoLocal
    /\ log = <<>>
    /\ returned = NoReturned
    /\ processCalls = [n \in Names |-> 0]
    /\ chunks = NoChunks
    /\ sse = NoSse

\* handleProcessFile called for filesToUpload[i], whatever its card shows; the
\* call is noted in returned
Invoke(i) ==
    /\ CallsInFlight(processCalls, Names) < MaxProcessCalls
    /\ HandleProcessFile(filesToUpload[i].name)
    /\ returned' = [NoReturned EXCEPT !.name = filesToUpload[i].name,
                                      !.result = "invoked"]

NextTrigger ==
    \/ \E i \in 1 .. Len(filesToUpload) : Invoke(i)
    \/ \E name \in Names, id \in JobIds : ProcessReturns(name, id)
    \/ \E name \in Names, err \in ApiErrors : ProcessThrows(name, err)

TriggerSpec == InitTrigger /\ [][NextTrigger]_vars

\* a network call of the transfer in flight settles
Settle ==
    \/ \E u \in UploadIds, f \in FileIds, n \in TotalPartsRange : ApiCallReturns(u, f, n)
    \/ \E err \in ApiErrors : ApiCallThrows(err)
    \/ \E status \in HttpStatuses : XhrLoad(status)
    \/ XhrError
    \/ \E status \in HttpStatuses, h \in ETagHeaders : FetchResolves(status, h)
    \/ FetchRejects

\* the list of files and the upload-all run, without the processing trigger, whose
\* handlers read and write nothing the run reads
NextUpload ==
    \/ \E acceptedFiles \in AcceptedDrops : Drop(acceptedFiles)
    \/ \E i \in 1 .. Len(filesToUpload) : RemoveFile(i)
    \/ ClearAll
    \/ UploadAllClick
    \/ \E lc \in BOOLEAN, loaded \in UNION {LoadedSteps(z) : z \in Sizes} : XhrProgress(lc, loaded)
    \/ Settle

\* handleUploadAll called whatever the button shows, when no run is under way
CallUploadAll ==
    /\ pc = "idle"
    /\ HandleUploadAll

NextRun ==
    \/ \E acceptedFiles \in AcceptedDrops : Drop(acceptedFiles)
    \/ \E i \in 1 .. Len(filesToUpload) : RemoveFile(i)
    \/ ClearAll
    \/ CallUploadAll
    \/ \E lc \in BOOLEAN, loaded \in UNION {LoadedSteps(z) : z \in Sizes} : XhrProgress(lc, loaded)
    \/ Settle

\* the runs of handleUploadAll from every shape the list can have between runs
RunSpec == InitTrigger /\ [][NextRun]_vars

\* the uploads under the assumption that every network call of a transfer
\* eventually returns or fails
FairSpec == Init /\ [][NextUpload]_vars /\ WF_vars(Settle)

\* ------------------------------------------------------- reading the logs
\* the two logs a state holds: of the transfer in flight, of the one that returned
Logs == {log, returned.log}

Positions(lg, op, ev) == {i \in DOMAIN lg : lg[i].op = op /\ lg[i].ev = ev}
Has(lg, op, ev) == Positions(lg, op, ev) # {}
PartFailures(lg) == Positions(lg, "partUrl", "fail") \cup Positions(lg, "partPut", "fail")
AbortRequests(lg) == Positions(lg, "abort", "req")

\* the abort requests of lg carry the ids the initiate response of lg gave
AbortsTheSession(lg) ==
    \A i \in AbortRequests(lg) : \E j \in Positions(lg, "initiate", "ok") :
        lg[i].fileId = lg[j].fileId /\ lg[i].uploadId = lg[j].uploadId

\* the transfer that just returned left its last writes in the maps, unless the
\* loop has at once started another file of the same name
ReturnedIsCurrent == pc = "idle" \/ CurFile.name # returned.name

\* ------------------------------------------------------------------ claims
\* C1: a multipart transfer whose initiate succeeded and whose part-URL request or
\* part PUT then failed has issued exactly one abort request, for the session's
\* file_id and upload_id, by the time it returns its error.
C1_AbortOnPartFailure ==
    (returned.result = "error" /\ Has(returned.log, "initiate", "ok")
        /\ PartFailures(returned.log) # {})
    => (Cardinality(AbortRequests(returned.log)) = 1 /\ AbortsTheSession(returned.log))

\* C2: a multipart transfer whose parts all succeeded and whose completion call
\* failed has issued an abort request for the session before it returns, and the
\* file's status is then error.
C2_AbortOnCompleteFailure ==
    (returned.result # "none" /\ Has(returned.log, "complete", "fail"))
    => /\ AbortRequests(returned.log) # {}
       /\ AbortsTheSession(returned.log)
       /\ returned.state.status = "error"

\* C3: a multipart transfer whose initiate call failed returns without any abort
\* request, with status error and progress -1 written for the file.
C3_InitiateFailure ==
    (returned.result # "none" /\ Has(returned.log, "initiate", "fail"))
    => /\ AbortRequests(returned.log) = {}
       /\ returned.result = "error"
       /\ returned.state.status = "error"
       /\ returned.progress = -1
       /\ ReturnedIsCurrent =>
            /\ uploadProgress[returned.name] = -1
            /\ StatusIs(returned.name, "error")

C3_Witness ==
    /\ returned.result = "error"
    /\ Has(returned.log, "initiate", "fail")
    /\ ReturnedIsCurrent

\* C4: after the failure of the part-URL request or of the PUT of a part, the
\* session issues no part-URL request, no PUT and no completion request any more.
C4_NothingAfterPartFailure ==
    \A lg \in Logs : \A i \in PartFailures(lg) : \A j \in DOMAIN lg :
        j > i => lg[j].op \notin {"partUrl", "partPut", "complete"}

\* a session of several parts that failed before its last part and has returned
C4_Witness ==
    /\ returned.result = "error"
    /\ \E i \in PartFailures(returned.log) : \E j \in Positions(returned.log, "initiate", "ok") :
          returned.log[i].part < returned.log[j].total_parts

\* C5: the parts list of every completion request of a session with total_parts = N
\* has the part numbers 1, 2, ..., N in this order.
C5_CompletionListsAllParts ==
    \A lg \in Logs : \A i \in Positions(lg, "complete", "req") :
        \E j \in Positions(lg, "initiate", "ok") :
            [k \in DOMAIN lg[i].parts |-> lg[i].parts[k].part_number]
                = [k \in 1 .. lg[j].total_parts |-> k]

C5_Witness ==
    \E i \in Positions(log, "complete", "req") : Len(log[i].parts) = MaxParts

\* the calls of a session of n parts, in the order the claim gives
RECURSIVE PartCalls(_)
PartCalls(n) ==
    IF n = 0 THEN <<>>
    ELSE PartCalls(n - 1) \o <<[op |-> "partUrl", part |-> n], [op |-> "partPut", part |-> n]>>
SessionCalls(n) ==
    <<[op |-> "initiate", part |-> 0]>> \o PartCalls(n) \o <<[op |-> "complete", part |-> 0]>>

\* lg is a run of the calls of a session in order, each a request followed by its
\* outcome before the next request, ended by the first failure; abort entries
\* come only after a failure and after everything else
InOrder(lg) ==
    LET main == SelectSeq(lg, LAMBDA e : e.op # "abort")
        n == IF Has(lg, "initiate", "ok")
             THEN lg[CHOOSE j \in Positions(lg, "initiate", "ok") : TRUE].total_parts
             ELSE 0
        calls == SessionCalls(n)
    IN  /\ \A i \in DOMAIN main :
              LET k == (i + 1) \div 2 IN
              /\ k <= Len(calls)
              /\ main[i].op = calls[k].op
              /\ main[i].part = calls[k].part
              /\ main[i].ev = "req" <=> i % 2 = 1
              /\ main[i].ev = "fail" => i = Len(main)
        /\ \A i \in DOMAIN lg :
              lg[i].op = "abort" =>
                  /\ i > Len(main)
                  /\ main # <<>>
                  /\ main[Len(main)].ev = "fail"

\* C6: the requests of a multipart session are issued in the order initiate, then
\* for p = 1..N the part-URL request of p and the PUT of p, then completion, each
\* only after the one before has completed, and an abort only after a failure.
C6_SessionOrder ==
    \A lg \in Logs : Has(lg, "initiate", "req") => InOrder(lg)

\* a session of MaxParts parts that ran to the end
C6_Witness ==
    /\ returned.result = "success"
    /\ \E j \in Positions(returned.log, "initiate", "ok") :
          returned.log[j].total_parts = MaxParts
    /\ Has(returned.log, "complete", "ok")

\* the status of a name; a file without a record is in the implicit
\* pending_upload state
StatusOf(state, name) ==
    IF name \in DOMAIN state THEN state[name].status ELSE "pending_upload"

FiveTransitions ==
    {<<"pending_upload", "awaiting_action">>, <<"pending_upload", "error">>,
     <<"awaiting_action", "processing">>, <<"processing", "processed">>,
     <<"processing", "error">>}

\* C7: every change of the status of a file, the end of its record by removal
\* aside, is one of the five transitions of the state machine.
C7_OnlyFiveTransitions ==
    [][\A n \in Names :
         (n \in DOMAIN processingState' /\
            StatusOf(processingState', n) # StatusOf(processingState, n))
         => <<StatusOf(processingState, n), StatusOf(processingState', n)>>
                \in FiveTransitions]_vars

\* C8: once the status of a file is error, it stays error for as long as the
\* record exists.
C8_ErrorIsTerminal ==
    [][\A n \in Names :
         (StatusIs(n, "error") /\ n \in DOMAIN processingState')
         => processingState'[n].status = "error"]_vars

\* C9: the progress of a file never decreases (the step to the failure value -1
\* aside) and never changes once it is 100 or -1, for as long as the entry exists.
C9_ProgressMonotone ==
    [][\A n \in Names :
         (n \in DOMAIN uploadProgress /\ n \in DOMAIN uploadProgress')
         => \/ uploadProgress'[n] = uploadProgress[n]
            \/ /\ uploadProgress[n] \notin {100, -1}
               /\ (uploadProgress'[n] = -1 \/ uploadProgress'[n] >= uploadProgress[n])]_vars

\* C10: the progress of a file is 100 only when its upload has succeeded, never
\* while its transfer is still in flight.
C10_HundredOnlyOnSuccess ==
    \A n \in DOMAIN uploadProgress :
        uploadProgress[n] = 100 => ~(pc # "idle" /\ CurFile.name = n)

\* the file of the transfer in flight is in the list
InFlightListed == pc # "idle" /\ HasName(filesToUpload, CurFile.name)

\* C11: while the transfer of a file is in flight, the file stays in the list and
\* its progress entry and its state entry are not deleted.
C11_NoRemovalInFlight ==
    [][InFlightListed =>
         /\ HasName(filesToUpload', CurFile.name)
         /\ CurFile.name \in DOMAIN uploadProgress
              => CurFile.name \in DOMAIN uploadProgress'
         /\ CurFile.name \in DOMAIN processingState
              => CurFile.name \in DOMAIN processingState']_vars

\* the progress values that end a transfer
Final == {100, -1}

\* C12: a run of upload-all ends only when none of the files its loop uploads is
\* left unstarted, whatever the transfers before returned; every transfer that
\* returns has written progress 100 or -1 for its file, and when no run is under
\* way every progress entry is 100 or -1.
C12_FailureDoesNotStopBatch ==
    /\ returned.run.over => returned.run.pending = <<>>
    /\ returned.result # "none" => returned.progress \in Final
    /\ (returned.result # "none" /\ ~returned.run.over) => pc # "idle"
    /\ pc = "idle" => \A n \in DOMAIN uploadProgress : uploadProgress[n] \in Final

\* the transfer of a file has failed and the run has started the next file
C12_Witness ==
    /\ returned.result = "error"
    /\ pc # "idle"
    /\ CurFile.name # returned.name
    /\ uploadProgress[returned.name] = -1

\* C13: if every network call eventually returns or fails, every run of
\* upload-all ends: isUploadingOverall, set at its start, becomes false again.
C13_RunCompletes == isUploadingOverall ~> ~isUploadingOverall

\* a run has ended with the failure of its last transfer
C13_Witness ==
    /\ returned.run.over
    /\ returned.result = "error"
    /\ ~isUploadingOverall

\* this step starts the transfer of a file
TransferStarts ==
    /\ pc' \in {"presign", "initiate"}
    /\ <<pc, log, closure>> # <<pc', log', closure'>>

\* C14: the transfer of a file starts only when no transfer is in flight (at the
\* click, or in the turn in which the transfer before it returned), and the file
\* started is the first, in the order of the list, of the files of the run not
\* started yet.
C14_OneAtATimeInOrder ==
    [][TransferStarts =>
         /\ pc = "idle" \/ returned'.result # "none"
         /\ CurFile'.name = Head(IF pc = "idle" THEN Batch ELSE run.pending)]_vars

\* the second file of a run has been started in the turn the first returned
C14_Witness ==
    /\ returned.result # "none"
    /\ pc \in {"presign", "initiate"}
    /\ Len(filesToUpload) = MaxFiles
    /\ returned.name = filesToUpload[1].name
    /\ CurFile.name = filesToUpload[2].name
    /\ CurFile.name # returned.name

\* this step is a call of handleProcessFile for name n
Invoked(n) == returned'.result = "invoked" /\ returned'.name = n

\* C15: a call of handleProcessFile for a file whose state record has no fileId,
\* or that has no state record, issues no startFileProcessing call and leaves
\* the progress entries and the state entries as they are.
C15_NoFileIdNoCall ==
    [][\A n \in Names :
         (Invoked(n) /\ (n \notin DOMAIN processingState
                           \/ processingState[n].fileId = NoId))
         => /\ processCalls' = processCalls
            /\ uploadProgress' = uploadProgress
            /\ processingState' = processingState]_vars

\* handleProcessFile has been called for a file whose record has no fileId
C15_Witness ==
    /\ returned.result = "invoked"
    /\ returned.name \in DOMAIN processingState
    /\ processingState[returned.name].fileId = NoId
    /\ CallsInFlight(processCalls, Names) = 0

\* this step issues a startFileProcessing call for name n
CallIssued(n) == processCalls'[n] > processCalls[n]

\* this step is the settling of a startFileProcessing call for name n; the call
\* failed if the step leaves the status error, the only status its catch sets
CallSettled(n) == processCalls'[n] < processCalls[n]
CallFailed(n) == CallSettled(n) /\ processingState'[n].status = "error"
CallSucceeded(n) == CallSettled(n) /\ ~CallFailed(n)

\* the possible messages of a processed file: "Process ID: " and the last
\* FragmentLength digits of a job id
JobFragments == {Msg("Process ID: ", "", id % (10 ^ FragmentLength)) : id \in JobIds}

\* C16: the click on the trigger of a file in awaiting_action with a fileId sets
\* its status to processing in the turn that issues the call, before the call
\* returns; the success of the call sets status processed with the fragment of
\* the job id as message; neither changes the fileId.
C16_TriggerThenProcessed ==
    [][\A n \in Names :
         /\ CallIssued(n) =>
              /\ StatusIs(n, "awaiting_action")
              /\ processingState[n].fileId # NoId
              /\ processingState'[n].status = "processing"
              /\ processingState'[n].fileId = processingState[n].fileId
         /\ CallSucceeded(n) =>
              /\ processingState'[n].status = "processed"
              /\ processingState'[n].message \in JobFragments
              /\ processingState'[n].message.n < 10 ^ FragmentLength
              /\ processingState'[n].fileId = Spread(processingState, n).fileId]_vars

\* a file went from awaiting_action over processing to processed and shows the
\* fragment of the job id
C16_Witness ==
    \E n \in Names :
        /\ StatusIs(n, "processed")
        /\ processingState[n].message \in JobFragments
        /\ processingState[n].fileId \in FileIds
        /\ CurrentUploadProgress(n) = 100
        /\ processCalls[n] = 0

\* the messages of a failed startFileProcessing call
ProcessFailures == {ProcessFailedMessage(e) : e \in ApiErrors}

\* the record of n is in error by a failed startFileProcessing call
ProcessFailed(n) ==
    StatusIs(n, "error") /\ processingState[n].message \in ProcessFailures

\* C17: the failure of the start-processing call of a file sets its status to
\* error with the message of the failure and changes neither its fileId nor its
\* progress; a record left in error by such a failure is never set to
\* awaiting_action.
C17_ProcessFailureIsFinal ==
    [][\A n \in Names :
         /\ CallFailed(n) =>
              /\ processingState'[n].message \in ProcessFailures
              /\ processingState'[n].fileId = Spread(processingState, n).fileId
              /\ uploadProgress' = uploadProgress
         /\ (ProcessFailed(n) /\ n \in DOMAIN processingState') =>
              processingState'[n].status # "awaiting_action"]_vars

\* the requests of the two transfers
SingleOps == {"presign", "xhrPut"}
MultipartOps == {"initiate", "partUrl", "partPut", "complete", "abort"}

\* the size of the file selected under a name
SizeOf(name) == (CHOOSE f \in Files : f.name = name).size

\* lg is the log of one transfer of a file of this size: it has requests, and all
\* are of the single-shot transfer if the size is at most 104857600 bytes, all
\* of the multipart transfer if it is more
RightTransfer(lg, size) ==
    /\ lg # <<>>
    /\ size <= 104857600 => \A i \in DOMAIN lg : lg[i].op \in SingleOps
    /\ size > 104857600 => \A i \in DOMAIN lg : lg[i].op \in MultipartOps

\* C18: a file of at most 100 MiB (104857600 bytes included) is uploaded by the
\* single-shot transfer and a larger file by the multipart transfer, and every
\* attempted file runs exactly one of the two.
C18_ThresholdSelectsTransfer ==
    /\ pc # "idle" => RightTransfer(log, CurFile.size)
    /\ returned.result # "none" => RightTransfer(returned.log, SizeOf(returned.name))

\* a file of exactly 100 MiB has been uploaded
C18_Witness ==
    /\ returned.result = "success"
    /\ SizeOf(returned.name) = 104857600
    /\ Has(returned.log, "xhrPut", "ok")

\* lg, the log of a single-shot transfer, has exactly one presigned-URL request
\* and at most one PUT, and no PUT if the presigned-URL request failed
OnePresignOnePut(lg) ==
    /\ Cardinality(Positions(lg, "presign", "req")) = 1
    /\ Cardinality(Positions(lg, "xhrPut", "req")) <= 1
    /\ Has(lg, "presign", "fail") => ~Has(lg, "xhrPut", "req")
    /\ \A i \in Positions(lg, "xhrPut", "req") : \E j \in Positions(lg, "presign", "ok") : j < i

\* C19: a single-shot transfer issues exactly one presigned-URL request and at
\* most one PUT, none if that request failed; when both succeeded it returns
\* having written progress 100 and status awaiting_action with the file_id of
\* the presigned response, and when one failed, progress -1 and status error.
C19_SingleShot ==
    /\ Has(log, "presign", "req") => OnePresignOnePut(log)
    /\ (returned.result # "none" /\ Has(returned.log, "presign", "req")) =>
         /\ OnePresignOnePut(returned.log)
         /\ Has(returned.log, "xhrPut", "ok") =>
              /\ returned.progress = 100
              /\ returned.state.status = "awaiting_action"
              /\ \E j \in Positions(returned.log, "presign", "ok") :
                    returned.state.fileId = returned.log[j].fileId
                    /\ returned.state.fileId # NoId
         /\ (Has(returned.log, "presign", "fail") \/ Has(returned.log, "xhrPut", "fail")) =>
              /\ returned.progress = -1
              /\ returned.state.status = "error"
         /\ ReturnedIsCurrent =>
              /\ uploadProgress[returned.name] = returned.progress
              /\ processingState[returned.name] = returned.state

\* a single-shot transfer whose PUT was answered with an error status has returned
C19_Witness ==
    /\ returned.result = "error"
    /\ Has(returned.log, "presign", "ok")
    /\ Has(returned.log, "xhrPut", "fail")
    /\ ReturnedIsCurrent

\* C21: a state record carries a fileId only once the upload of its file has
\* succeeded: in every state, a record with a fileId belongs to a name whose
\* progress is 100.
C21_FileIdOnlyAfterSuccess ==
    \A n \in DOMAIN processingState :
        processingState[n].fileId # NoId => CurrentUploadProgress(n) = 100

\* ceil(a / b) for a >= 0, b > 0
Ceil(a, b) == (a + b - 1) \div b

\* C22: in a multipart session with part size S (recommended_part_size, or 10 MiB
\* when none is given) and N parts, part p is cut from (p-1)*S to min(p*S, size)
\* and uploads the bytes of this range; no range end exceeds the size of the
\* file, the bytes of consecutive parts are contiguous and disjoint, and when
\* N = ceil(size / S) the parts 1..N cover the bytes 0 .. size-1 exactly.
C22_ChunkRanges ==
    LET S == IF chunks.recommended_part_size = 0 THEN 10485760
             ELSE chunks.recommended_part_size
        size == chunks.size
        cut == chunks.cut
    IN  /\ \A p \in DOMAIN cut :
              /\ cut[p].start = (p - 1) * S
              /\ cut[p].end = (IF p * S <= size THEN p * S ELSE size)
              /\ cut[p].end <= size
              /\ IF cut[p].start < cut[p].end
                 THEN cut[p].lo = cut[p].start /\ cut[p].hi = cut[p].end
                 ELSE cut[p].lo = cut[p].hi
              /\ p > 1 =>
                   /\ cut[p].lo = cut[p - 1].hi
                   /\ cut[p].start < size => cut[p].start = cut[p - 1].end
        /\ (Len(cut) = chunks.total_parts /\ chunks.total_parts = Ceil(size, S)) =>
              /\ cut[1].lo = 0
              /\ cut[Len(cut)].hi = size
              /\ \A p \in DOMAIN cut : cut[p].lo < cut[p].hi

\* all the chunks of a file are cut, the last one shorter than the part size
C22_Witness ==
    /\ chunks.total_parts > 1
    /\ Len(chunks.cut) = chunks.total_parts
    /\ chunks.total_parts = Ceil(chunks.size, PartSize(chunks.recommended_part_size))
    /\ LET last == chunks.cut[Len(chunks.cut)]
       IN  last.hi - last.lo < PartSize(chunks.recommended_part_size)

\* the turn just run was a stream error that scheduled exactly one reconnect,
\* the only one pending, with the back-off delay of the k-th error
OneRetryAfter(k) ==
    LET delay == IF 1000 * 2 ^ (k - 1) < 30000 THEN 1000 * 2 ^ (k - 1) ELSE 30000
    IN  /\ k >= 1
        /\ sse.did.scheduled = <<delay>>
        /\ \E t \in sse.timers : sse.timers = {t} /\ t.delay = delay
                                 /\ t.id = sse.retryTimeoutRef

\* C23: after the k-th consecutive stream error since the last successful open,
\* exactly one reconnect is scheduled, with delay min(30000 ms, 1000 ms * 2^(k-1)).
C23_BackOffSinceOpen ==
    sse.did.op = "error" => OneRetryAfter(sse.errors)

\* C23 as amended: after the k-th consecutive stream error since the last
\* successful open or the last disconnect() that closed a stream, exactly one
\* reconnect is scheduled, with delay min(30000 ms, 1000 ms * 2^(k-1)).
C23_BackOffSinceReset ==
    sse.did.op = "error" => OneRetryAfter(sse.sinceReset)

\* the sixth error in a row, the first whose delay is cut to 30 s
C23_Witness ==
    /\ sse.did.op = "error"
    /\ sse.sinceReset = 6
    /\ sse.did.scheduled = <<30000>>

\* this step is a step of a run of handleUploadAll: its start, a progress event or
\* the settling of a call of the transfer in flight
RunStep ==
    \/ <<pc, local, log, closure>>' # <<pc, local, log, closure>>
    \/ returned'.run.over

\* the names of the files whose transfer is in flight before or after this step
InFlightNames ==
    (IF pc # "idle" THEN {CurFile.name} ELSE {})
    \cup (IF pc' # "idle" THEN {CurFile'.name} ELSE {})

\* C24: a run of upload-all starts no transfer, and so issues no request, for a
\* file whose progress was 100 or -1 when the run started; its steps change the
\* progress and state entries of no file but the one in flight; and a run started
\* when every file is at 100 or -1 ends at once without a request.
C24_TerminalFilesSkipped ==
    [][/\ TransferStarts =>
            LET n == CurFile'.name
                atStart == closure'.uploadProgress
            IN  n \notin DOMAIN atStart \/ atStart[n] \notin {100, -1}
       /\ RunStep =>
            \A n \in Names \ InFlightNames :
                /\ (n \in DOMAIN uploadProgress) = (n \in DOMAIN uploadProgress')
                /\ n \in DOMAIN uploadProgress => uploadProgress'[n] = uploadProgress[n]
                /\ (n \in DOMAIN processingState) = (n \in DOMAIN processingState')
                /\ n \in DOMAIN processingState => processingState'[n] = processingState[n]
       /\ (RunStep /\ pc = "idle" /\ \A i \in DOMAIN filesToUpload :
                                        CurrentUploadProgress(filesToUpload[i].name) \in {100, -1}
                                        /\ filesToUpload[i].name \in DOMAIN uploadProgress)
            => (pc' = "idle" /\ log' = <<>> /\ returned'.run.over
                /\ uploadProgress' = uploadProgress
                /\ processingState' = processingState)]_vars

\* a run has skipped the first file of the list, which failed before, and has
\* started the second
C24_Witness ==
    /\ pc # "idle"
    /\ returned.result = "none"
    /\ Len(filesToUpload) = 2
    /\ CurFile.name = filesToUpload[2].name
    /\ filesToUpload[1].name \in DOMAIN uploadProgress
    /\ uploadProgress[filesToUpload[1].name] = -1
    /\ log = <<Req(pc, 0)>>

\* C25: in every state, each name with an entry in the progress map or in the
\* state map is the name of a file of the list: no callback of a transfer or of
\* the processing trigger creates an entry for a file removed or cleared.
C25_EntriesOnlyForListedFiles ==
    \A n \in DOMAIN uploadProgress \cup DOMAIN processingState :
        HasName(filesToUpload, n)

\* C26: a file removed from the list during a run of upload-all before its
\* transfer has started is not uploaded by that run: every transfer the run
\* starts is of a file that is in the list at that moment.
C26_RemovedFileNotUploaded ==
    [][TransferStarts => HasName(filesToUpload, CurFile'.name)]_vars

\* C27: the list never holds two files of the same name, after any drops and
\* removals.
C27_NoTwoFilesOfOneName ==
    \A i, j \in DOMAIN filesToUpload :
        filesToUpload[i].name = filesToUpload[j].name => i = j

\* C28: in every state, a record with status processed has a fileId and
\* belongs to a name whose progress is 100.
C28_ProcessedHasFileId ==
    \A n \in DOMAIN processingState :
        processingState[n].status = "processed" =>
            /\ processingState[n].fileId # NoId
            /\ n \in DOMAIN uploadProgress
            /\ uploadProgress[n] = 100

\* the streams that are open or connecting
LiveStreams == {es \in DOMAIN sse.readyState : sse.readyState[es] # "CLOSED"}

\* C29: in the hook, at every moment at most one EventSource is open or
\* connecting and at most one reconnect timer is pending.
C29_OneStreamOneTimer ==
    /\ Cardinality(LiveStreams) <= 1
    /\ Cardinality(sse.timers) <= 1

\* connect was called while a stream was open: the old one is closed, the only
\* live stream is the new one
C29_Witness ==
    /\ sse.did.op = "connect"
    /\ sse.did.created = 1
    /\ sse.isConnected
    /\ LiveStreams = {sse.eventSource}
    /\ sse.readyState[sse.eventSource] = "CONNECTING"

\* C30: after disconnect() and until connect() is called again, no reconnect
\* happens: no stream is open or connecting and no retry timer is pending, so
\* that no event of the hook follows the call, whether a stream was open or a
\* retry was pending when it was made.
C30_NoReconnectAfterDisconnect ==
    sse.disconnected =>
        /\ sse.did.op = "disconnect"
        /\ sse.did.created = 0
        /\ LiveStreams = {}
        /\ sse.timers = {}
        /\ sse.eventSource = 0
        /\ sse.retryTimeoutRef = 0

\* disconnect was called while a retry was pending: the attempts counted so far
\* are still there, the timer is not
C30_Witness ==
    /\ sse.disconnected
    /\ sse.retryAttempt > 0
    /\ sse.error.kind = "lost"
    /\ sse.timers = {}

\* C31: after disconnect() has returned the hook is in its initial state in
\* every case: not connected, no error message, and the retry counter at 0 (so
\* that the next stream error schedules the first delay of 1000 ms).
C31_DisconnectResets ==
    sse.disconnected =>
        /\ ~sse.isConnected
        /\ sse.error = NoError
        /\ sse.retryAttempt = 0

====
